---- MODULE Spec2Model ----
(***************************************************************************)
(* Web3Manager of the tamper-proof logistics tracker                       *)
(* (src/streamlit_app/web3_utils.py): the connection state, the            *)
(* single-shot add_checkpoint transaction lifecycle                        *)
(* (validate -> balance guard -> estimate -> nonce -> build/sign -> send   *)
(* -> wait -> classify) and the reads, against a JSON-RPC node and the     *)
(* SupplyChainTracker contract it talks to.                                *)
(*                                                                         *)
(* Strings are sequences of one-character strings, " " being whitespace,   *)
(* so that str.strip() is a real conversion.  Amounts of ether are counted *)
(* in gwei (10^9 wei): every amount the code compares is a multiple of     *)
(* one gwei, and b_wei < c_gwei * 10^9 iff b_wei \div 10^9 < c_gwei.       *)
(***************************************************************************)
EXTENDS Integers, Sequences, FiniteSets, TLC

----------------------------------------------------------------------------
(* Bounds of the model *)

\* add_checkpoint calls started in one behaviour
MaxCalls == 2

----------------------------------------------------------------------------
(* Callers and inputs *)

\* two call sites (threads / script runs) sharing the manager and the account
Procs == {1, 2}

ShipmentIds == {<<>>, <<" ">>, <<"A">>, <<" ", "A">>}
Locations   == {<<" ">>, <<"F">>}
Statuses    == {<<>>, <<"c">>}
\* document_hash is passed on as given, never tested: one value stands for all
DocHashes   == {<<"h">>}

\* gas estimates the node may answer: one that is no multiple of 5, and a
\* multiple of 5 above 2000000 / 1.2
GasEstimates == {99999, 1700000}

\* account balances, in gwei
Balances == {39999999, 40000000, 40800000}

\* keywords add_checkpoint's handler looks for in str(e).lower()
Keywords == {"insufficient funds", "nonce", "gas", "revert", "unauthorized", "role"}

\* texts of the exceptions the client library raises, as the set of keywords
\* each contains
ErrConnection   == {}                              \* "HTTPConnectionPool(...): Max retries exceeded"
ErrTimeExhausted == {}                             \* "Transaction 0x.. is not in the chain after 120 seconds"
ErrUnderpriced  == {}                              \* "replacement transaction underpriced" / "already known"
ErrNonceTooLow  == {"nonce"}                       \* "nonce too low"
ErrFunds        == {"insufficient funds", "gas"}   \* "insufficient funds for gas * price + value"

VARIABLES
    cfg,        \* rpc_url / private_key / contract_address are truthy
    w3,         \* self.w3 is set
    contract,   \* self.contract is set
    account,    \* self.account is set
    probes,     \* liveness probes made by the last connect() call
    balance,    \* chain: balance of the account, gwei
    pool,       \* chain: pending transactions of the account
    mined,      \* chain: mined transactions of the account with receipt status, block order
    started,    \* add_checkpoint calls started so far
    pc,         \* per caller: position in add_checkpoint
    args,       \* per caller: arguments of the call
    lv,         \* per caller: locals balance, gas_estimate, gas_limit, nonce, tx (signed), sent
    result,     \* per caller: the returned (success, message, tx_details)
    rpc,        \* per caller: network calls made by the current call, by kind
    outcome,    \* per caller: what happened in the call (history variable)
    before,     \* per caller: get_checkpoint_count(shipment_id) at call entry (history variable)
    session,    \* what connect() / disconnect() last did (history variable)
    op,         \* the last call of a read operation and what it gave back
    prev,       \* the get_recent_events call before the last one, with the head its caller observed
    pl,         \* the polling thread of listen_for_new_events: position and locals
    delivered,  \* the event lists passed to the callback, in order (history variable)
    scans,      \* the block ranges the polling thread's scans covered, in order (history variable)
    test_state, \* test_session_state.py: st.session_state of the browser session
    test_ui,    \* test_session_state.py: the last user event of the session (history variable)
    page_state, \* app.py: st.session_state keys of the Add Checkpoint page
    page_ui     \* app.py: the last script run of the page and its calls of add_checkpoint (history variable)

manager == <<cfg, w3, contract, account, probes>>
chain   == <<balance, pool, mined>>
callers == <<started, pc, args, lv, result, rpc, outcome, before>>
reads   == <<op, prev>>
poller  == <<pl, delivered, scans>>
ui      == <<test_state, test_ui, page_state, page_ui>>
vars    == <<cfg, w3, contract, account, probes, balance, pool, mined,
             started, pc, args, lv, result, rpc, outcome, before,
             session, op, prev, pl, delivered, scans,
             test_state, test_ui, page_state, page_ui>>

----------------------------------------------------------------------------
(* Python string helpers *)

RECURSIVE LStrip(_)
LStrip(s) == IF s # <<>> /\ Head(s) = " " THEN LStrip(Tail(s)) ELSE s

RECURSIVE RStrip(_)
RStrip(s) == IF s # <<>> /\ s[Len(s)] = " " THEN RStrip(SubSeq(s, 1, Len(s) - 1)) ELSE s

\* str.strip()
Strip(s) == RStrip(LStrip(s))

\* not s or not s.strip()
IsBlank(s) == s = <<>> \/ Strip(s) = <<>>

----------------------------------------------------------------------------
(* The contract's storage, as the mined transactions determine it *)

Checkpoint(tx) ==
    [shipmentId |-> tx.shipmentId, location |-> tx.location,
     status |-> tx.status, documentHash |-> tx.documentHash]

RECURSIVE HistoryOf(_, _)
\* checkpoints stored under the key sid by the successful transactions of ms
HistoryOf(ms, sid) ==
    IF ms = <<>> THEN <<>>
    ELSE LET rest == HistoryOf(SubSeq(ms, 1, Len(ms) - 1), sid)
             m    == ms[Len(ms)]
         IN  IF m.status = 1 /\ m.tx.shipmentId = sid
             THEN Append(rest, Checkpoint(m.tx))
             ELSE rest

\* getShipmentHistory(key).call() and getCheckpointCount(key).call()
ContractHistory(key) == HistoryOf(mined, key)
ContractCount(key)   == Len(ContractHistory(key))

\* the account's transaction count at block 'latest'
TransactionCount == Len(mined)

IsMined(tx) == \E i \in 1..Len(mined) : mined[i].tx = tx
ReceiptOf(tx) == mined[CHOOSE i \in 1..Len(mined) : mined[i].tx = tx]

----------------------------------------------------------------------------
(* The read side before any call *)

\* no connect() or disconnect() call yet
NoSession == [afterDisconnect |-> FALSE, lastConnect |-> "none"]

\* no read operation called yet
NoOp ==
    [name |-> "none", arg |-> <<>>, kind |-> "none", class |-> "none",
     value |-> <<>>, calls |-> 0, head |-> 0, afterDisconnect |-> FALSE]

\* listen_for_new_events not called yet; retry_from is a history field: the
\* from_block of the scan whose callback raised, 0 once last_block advanced
PollerOff ==
    [pc |-> "off", callback |-> FALSE, first_block |-> 0, last_block |-> 0,
     current_block |-> 0, events |-> <<>>, retry_from |-> 0]

\* Python's None for a session-state key, and a key holding the value v
PyNone == <<>>
Some(v) == <<v>>

\* test_session_state.py after its first script run
InitialTestState ==
    [test_data |-> PyNone, confirm_test |-> FALSE, awaiting_confirmation |-> FALSE]

\* no user event in the test app yet
NoTestEvent == [event |-> "start", input |-> <<>>, reruns |-> 0]

\* the Add Checkpoint page's keys before the page ever stored them:
\* st.session_state.get(key) gives None
InitialPageState ==
    [pending_checkpoint |-> PyNone, show_confirmation |-> PyNone,
     confirm_submission |-> PyNone]

\* the Add Checkpoint page before its first script run
NoPageRun ==
    [event |-> "start", did |-> "none", rerun |-> FALSE, rendered |-> {},
     clicks |-> 0, calls |-> 0]

InitReads ==
    /\ session = NoSession
    /\ op = NoOp
    /\ prev = NoOp
    /\ pl = PollerOff
    /\ delivered = <<>>
    /\ scans = <<>>
    /\ test_state = InitialTestState
    /\ test_ui = NoTestEvent
    /\ page_state = InitialPageState
    /\ page_ui = NoPageRun

----------------------------------------------------------------------------
(* Initial state: the manager as __init__ leaves it, an idle chain *)

Init ==
    /\ cfg \in [rpc_url : {"", "url"},
                private_key : {"", "placeholder", "key"},
                contract_address : {"", "placeholder", "addr"}]
    /\ w3 = FALSE
    /\ contract = FALSE
    /\ account = FALSE
    /\ probes = 0
    /\ balance \in Balances
    /\ pool = {}
    /\ mined = <<>>
    /\ started = 0
    /\ pc = [p \in Procs |-> "idle"]
    /\ args = [p \in Procs |-> [shipment_id |-> <<>>, location |-> <<>>,
                                status |-> <<>>, document_hash |-> <<>>]]
    /\ lv = [p \in Procs |-> [balance |-> -1, gas_estimate |-> 0, gas_limit |-> 0,
                              nonce |-> 0, tx |-> {}, sent |-> FALSE]]
    /\ result = [p \in Procs |-> [success |-> FALSE, class |-> "none", details |-> {}]]
    /\ rpc = [p \in Procs |-> [get_balance |-> 0, estimate_gas |-> 0,
                               get_transaction_count |-> 0,
                               send_raw_transaction |-> 0,
                               wait_for_transaction_receipt |-> 0]]
    /\ outcome = [p \in Procs |-> "none"]
    /\ before = [p \in Procs |-> 0]
    /\ InitReads

\* no add_checkpoint call is running and no caller still holds a returned result
Quiet == \A q \in Procs : pc[q] = "idle"

----------------------------------------------------------------------------
(* Web3Manager.connect and Web3Manager.disconnect *)

\* connect(): reachable is the answer of w3.is_connected(), abiOk whether
\* _load_contract_abi() found the artifact
Connect(reachable, abiOk) ==
    /\ Quiet
    /\ IF cfg.rpc_url = "" \/ cfg.private_key = "" \/ cfg.contract_address = ""
       THEN /\ probes' = 0
            /\ UNCHANGED <<w3, account, contract>>
       ELSE /\ w3' = TRUE
            /\ probes' = 1
            /\ IF ~reachable
               THEN UNCHANGED <<account, contract>>
               ELSE IF cfg.private_key = "placeholder"
               THEN UNCHANGED <<account, contract>>       \* from_key raises
               ELSE /\ account' = TRUE
                    /\ IF ~abiOk
                       THEN UNCHANGED contract
                       ELSE IF cfg.contract_address = "placeholder"
                       THEN UNCHANGED contract            \* to_checksum_address raises
                       ELSE contract' = TRUE
    /\ UNCHANGED <<cfg, chain, callers, reads, poller, ui>>

Disconnect ==
    /\ Quiet
    /\ w3' = FALSE
    /\ contract' = FALSE
    /\ account' = FALSE
    /\ UNCHANGED <<cfg, probes, chain, callers, reads, poller, ui>>

----------------------------------------------------------------------------
(* The reads, for a connected manager, a non-blank id and an answering node *)

\* get_checkpoint_count: getCheckpointCount(shipment_id.strip()).call()
GetCheckpointCount(shipment_id) == ContractCount(Strip(shipment_id))

\* get_shipment_history: getShipmentHistory(shipment_id).call(), reformatted
GetShipmentHistory(shipment_id) == ContractHistory(shipment_id)

----------------------------------------------------------------------------
(* Web3Manager.add_checkpoint: the pure parts *)

\* gas price of every transaction: to_wei('20', 'gwei'), in gwei
GasPriceGwei == 20

\* the gas limit used when estimate_gas raises, and in the balance guard
FallbackGas == 2000000

\* estimated_cost = 2000000 * to_wei('20', 'gwei'), in gwei
EstimatedCost == FallbackGas * GasPriceGwei

\* the early returns with the .strip() tests left out
PrecheckWithoutStrip(c, a, shipment_id, location, status) ==
    IF ~c THEN "NotConnected"
    ELSE IF ~a THEN "AccountNotLoaded"
    ELSE IF shipment_id = <<>> THEN "EmptyShipmentId"
    ELSE IF location = <<>> THEN "EmptyLocation"
    ELSE IF status = <<>> THEN "EmptyStatus"
    ELSE "ok"

\* the early returns with the location test moved in front of the others
PrecheckLocationFirst(c, a, shipment_id, location, status) ==
    IF IsBlank(location) THEN "EmptyLocation"
    ELSE IF ~c THEN "NotConnected"
    ELSE IF ~a THEN "AccountNotLoaded"
    ELSE IF IsBlank(shipment_id) THEN "EmptyShipmentId"
    ELSE IF IsBlank(status) THEN "EmptyStatus"
    ELSE "ok"

\* the early returns before the try block, in source order; "ok" when none fires
Precheck(c, a, shipment_id, location, status) ==
    IF ~c THEN "NotConnected"
    ELSE IF ~a THEN "AccountNotLoaded"
    ELSE IF IsBlank(shipment_id) THEN "EmptyShipmentId"
    ELSE IF IsBlank(location) THEN "EmptyLocation"
    ELSE IF IsBlank(status) THEN "EmptyStatus"
    ELSE "ok"

\* the guard comparing the balance with the gas price alone
BalanceGuardWithoutGas(b) == b < GasPriceGwei

\* balance < estimated_cost
BalanceGuardFails(b) == b < EstimatedCost

\* math.ceil(gas_estimate * 1.2) in exact arithmetic
GasLimitRoundedUp(gas_estimate) == (gas_estimate * 12 + 9) \div 10

\* int(gas_estimate * 1.2): the double product truncated toward zero.  The
\* double nearest 1.2 is 1.2 - 0.2 * 2^-52, so for every estimate below 2^52
\* the product rounds to a double whose integer part is that of 12 * n / 10.
GasLimitOf(gas_estimate) == (gas_estimate * 12) \div 10

\* an except branch that tests 'unauthorized' / 'role' before 'revert'
ClassifyRoleFirst(err) ==
    IF "insufficient funds" \in err THEN "InsufficientFunds"
    ELSE IF "nonce" \in err THEN "NonceError"
    ELSE IF "gas" \in err THEN "GasEstimationFailed"
    ELSE IF "unauthorized" \in err \/ "role" \in err THEN "Unauthorized"
    ELSE IF "revert" \in err THEN "Reverted"
    ELSE "TransactionError"

\* the except branch: the class of the first keyword found in str(e).lower()
Classify(err) ==
    IF "insufficient funds" \in err THEN "InsufficientFunds"
    ELSE IF "nonce" \in err THEN "NonceError"
    ELSE IF "gas" \in err THEN "GasEstimationFailed"
    ELSE IF "revert" \in err THEN "Reverted"
    ELSE IF "unauthorized" \in err \/ "role" \in err THEN "Unauthorized"
    ELSE "TransactionError"

\* a return of (False, message, {})
Failure(class) == [success |-> FALSE, class |-> class, details |-> {}]

\* an except branch that swallows the exception and reports success
ExceptionSwallowed(err) == [success |-> TRUE, class |-> "Success", details |-> {}]

\* what the except branch returns for an exception with text err
ExceptionResult(err) == Failure(Classify(err))

\* what the code returns once it holds a receipt: tx_details and the status test
ReceiptResult(tx, status) ==
    LET tx_details == [hash |-> tx, gas_limit |-> tx.gas, status |-> status]
    IN  IF status = 1
        THEN [success |-> TRUE, class |-> "Success", details |-> {tx_details}]
        ELSE [success |-> FALSE, class |-> "TransactionFailed", details |-> {tx_details}]

\* the transaction build_transaction returns and sign_transaction signs; its
\* hash is determined by these fields, so the record stands for the hash too
BuildTransaction(a, nonce, gas_limit) ==
    [nonce |-> nonce, shipmentId |-> a.shipment_id, location |-> a.location,
     status |-> a.status, documentHash |-> a.document_hash, gas |-> gas_limit]

NoCalls ==
    [get_balance |-> 0, estimate_gas |-> 0, get_transaction_count |-> 0,
     send_raw_transaction |-> 0, wait_for_transaction_receipt |-> 0]

\* the locals before the try block: balance -1 stands for "not read"
NoLocals ==
    [balance |-> -1, gas_estimate |-> 0, gas_limit |-> 0, nonce |-> 0,
     tx |-> {}, sent |-> FALSE]

TheTx(p) == CHOOSE t \in lv[p].tx : TRUE

\* the call returns r; what happened is recorded in outcome
Finish(p, r, what) ==
    /\ pc' = [pc EXCEPT ![p] = "done"]
    /\ result' = [result EXCEPT ![p] = r]
    /\ outcome' = [outcome EXCEPT ![p] = what]

----------------------------------------------------------------------------
(* Web3Manager.add_checkpoint: the steps of one call by caller p *)

\* entry and the early returns
Call(p, shipment_id, location, status, document_hash) ==
    /\ pc[p] = "idle"
    /\ started < MaxCalls
    /\ started' = started + 1
    /\ args' = [args EXCEPT ![p] = [shipment_id |-> shipment_id, location |-> location,
                                    status |-> status, document_hash |-> document_hash]]
    /\ before' = [before EXCEPT ![p] = GetCheckpointCount(shipment_id)]
    /\ rpc' = [rpc EXCEPT ![p] = NoCalls]
    /\ lv' = [lv EXCEPT ![p] = NoLocals]
    /\ LET pre == Precheck(contract, account, shipment_id, location, status)
       IN  IF pre = "ok"
           THEN /\ pc' = [pc EXCEPT ![p] = "balance"]
                /\ result' = [result EXCEPT ![p] = Failure("none")]
                /\ outcome' = [outcome EXCEPT ![p] = "running"]
           ELSE Finish(p, Failure(pre), "precheck")
    /\ UNCHANGED <<manager, chain, session, ui, reads, poller>>

\* a call of the one caller that submits: it starts after the previous returned
CallSerialized(shipment_id, location, status, document_hash) ==
    Call(1, shipment_id, location, status, document_hash)

\* balance = self.w3.eth.get_balance(...) and the balance guard
GetBalance(p, raises) ==
    /\ pc[p] = "balance"
    /\ rpc' = [rpc EXCEPT ![p].get_balance = @ + 1]
    /\ IF raises
       THEN /\ Finish(p, ExceptionResult(ErrConnection), "balance_read_failed")
            /\ UNCHANGED lv
       ELSE /\ lv' = [lv EXCEPT ![p].balance = balance]
            /\ IF BalanceGuardFails(balance)
               THEN Finish(p, Failure("InsufficientBalance"), "balance_guard")
               ELSE /\ pc' = [pc EXCEPT ![p] = "estimate"]
                    /\ UNCHANGED <<result, outcome>>
    /\ UNCHANGED <<manager, chain, started, args, before, session, ui, reads, poller>>

\* the inner try: estimate_gas answers e, or raises (e = -1)
EstimateGas(p, e) ==
    /\ pc[p] = "estimate"
    /\ rpc' = [rpc EXCEPT ![p].estimate_gas = @ + 1]
    /\ lv' = [lv EXCEPT ![p].gas_estimate = e,
                        ![p].gas_limit = IF e = -1 THEN FallbackGas ELSE GasLimitOf(e)]
    /\ pc' = [pc EXCEPT ![p] = "nonce"]
    /\ UNCHANGED <<manager, chain, started, args, result, outcome, before, session, ui, reads, poller>>

\* get_transaction_count inside build_transaction's argument, then build and sign
GetTransactionCount(p, raises) ==
    /\ pc[p] = "nonce"
    /\ rpc' = [rpc EXCEPT ![p].get_transaction_count = @ + 1]
    /\ IF raises
       THEN /\ Finish(p, ExceptionResult(ErrConnection), "nonce_read_failed")
            /\ UNCHANGED lv
       ELSE /\ lv' = [lv EXCEPT ![p].nonce = TransactionCount,
                                ![p].tx = {BuildTransaction(args[p], TransactionCount,
                                                            lv[p].gas_limit)}]
            /\ pc' = [pc EXCEPT ![p] = "send"]
            /\ UNCHANGED <<result, outcome>>
    /\ UNCHANGED <<manager, chain, started, args, before, session, ui, reads, poller>>

\* what the node answers to eth_sendRawTransaction(tx): "ok" or the raised text
NodeAnswers(tx) ==
    {[ok |-> FALSE, err |-> ErrConnection]}
    \cup (IF tx.nonce < TransactionCount
          THEN {[ok |-> FALSE, err |-> ErrNonceTooLow]}
          ELSE IF balance < tx.gas * GasPriceGwei
          THEN {[ok |-> FALSE, err |-> ErrFunds]}
          ELSE IF tx \in pool
          THEN {[ok |-> FALSE, err |-> ErrUnderpriced]}
          ELSE IF \E t \in pool : t.nonce = tx.nonce
          \* a same-priced replacement: refused by a node that holds the
          \* pending one, taken by a node that does not
          THEN {[ok |-> FALSE, err |-> ErrUnderpriced], [ok |-> TRUE, err |-> {}]}
          ELSE {[ok |-> TRUE, err |-> {}]})

\* send_raw_transaction raised err and the call sends the transaction again
OnSendRaiseRetry(p, err) ==
    UNCHANGED <<pc, result, outcome, lv>>

\* send_raw_transaction raised err: the except branch returns
OnSendRaise(p, err) ==
    /\ Finish(p, ExceptionResult(err), "broadcast_failed")
    /\ UNCHANGED lv

\* tx_hash = self.w3.eth.send_raw_transaction(signed_txn.raw_transaction)
SendRawTransaction(p, ans) ==
    /\ pc[p] = "send"
    /\ ans \in NodeAnswers(TheTx(p))
    /\ rpc' = [rpc EXCEPT ![p].send_raw_transaction = @ + 1]
    /\ IF ans.ok
       THEN /\ pool' = pool \cup {TheTx(p)}
            /\ lv' = [lv EXCEPT ![p].sent = TRUE]
            /\ pc' = [pc EXCEPT ![p] = "wait"]
            /\ UNCHANGED <<result, outcome>>
       ELSE /\ OnSendRaise(p, ans.err)
            /\ UNCHANGED pool
    /\ UNCHANGED <<manager, balance, mined, started, args, before, session, ui, reads, poller>>

\* receipt = wait_for_transaction_receipt(tx_hash, timeout=120): the receipt
\* when the transaction is mined, TimeExhausted when it is not, or a
\* transport error
WaitForReceipt(p, raises) ==
    /\ pc[p] = "wait"
    /\ rpc' = [rpc EXCEPT ![p].wait_for_transaction_receipt = @ + 1]
    /\ IF raises
       THEN Finish(p, ExceptionResult(ErrConnection), "wait_failed")
       ELSE IF IsMined(TheTx(p))
       THEN LET st == ReceiptOf(TheTx(p)).status
            IN  Finish(p, ReceiptResult(TheTx(p), st),
                       IF st = 1 THEN "success" ELSE "receipt_failed")
       ELSE Finish(p, ExceptionResult(ErrTimeExhausted), "timeout")
    /\ UNCHANGED <<manager, chain, started, args, lv, before, session, ui, reads, poller>>

\* the caller is done with the returned tuple
Return(p) ==
    /\ pc[p] = "done"
    /\ pc' = [pc EXCEPT ![p] = "idle"]
    /\ args' = [args EXCEPT ![p] = [shipment_id |-> <<>>, location |-> <<>>,
                                    status |-> <<>>, document_hash |-> <<>>]]
    /\ lv' = [lv EXCEPT ![p] = NoLocals]
    /\ result' = [result EXCEPT ![p] = Failure("none")]
    /\ rpc' = [rpc EXCEPT ![p] = NoCalls]
    /\ outcome' = [outcome EXCEPT ![p] = "none"]
    /\ before' = [before EXCEPT ![p] = 0]
    /\ UNCHANGED <<manager, chain, started, session, ui, reads, poller>>

----------------------------------------------------------------------------
(* The chain *)

\* a block includes the pending transaction tx: the contract call succeeds
\* (status 1, checkpoint stored) or reverts (status 0); the fee is paid and
\* pending transactions with a used nonce are dropped
Mine(tx, status, b) ==
    /\ tx \in pool
    /\ tx.nonce = TransactionCount
    /\ balance >= tx.gas * GasPriceGwei
    /\ b <= balance
    /\ mined' = Append(mined, [tx |-> tx, status |-> status])
    /\ pool' = {t \in pool : t.nonce > tx.nonce}
    /\ balance' = b
    /\ UNCHANGED <<manager, callers, session, ui, reads, poller>>

----------------------------------------------------------------------------
(* Specifications *)

Environment ==
    \/ \E reachable \in BOOLEAN, abiOk \in BOOLEAN :
           Connect(reachable, abiOk) /\ UNCHANGED session
    \/ Disconnect /\ UNCHANGED session
    \/ \E tx \in pool, status \in {0, 1}, b \in Balances : Mine(tx, status, b)

CallSteps(p) ==
    \/ \E raises \in BOOLEAN : GetBalance(p, raises)
    \/ \E e \in GasEstimates \cup {-1} : EstimateGas(p, e)
    \/ \E raises \in BOOLEAN : GetTransactionCount(p, raises)
    \/ \E ans \in [ok : BOOLEAN, err : SUBSET Keywords] : SendRawTransaction(p, ans)
    \/ \E raises \in BOOLEAN : WaitForReceipt(p, raises)

\* submissions serialized per signing account: one caller, one call at a time
Next ==
    \/ Environment
    \/ \E s \in ShipmentIds, l \in Locations, st \in Statuses, d \in DocHashes :
           CallSerialized(s, l, st, d)
    \/ CallSteps(1)
    \/ Return(1)

Spec == Init /\ [][Next]_vars

\* the state after construction with a complete configuration and a
\* successful connect()
InitConnected ==
    /\ cfg = [rpc_url |-> "url", private_key |-> "key", contract_address |-> "addr"]
    /\ w3 = TRUE
    /\ contract = TRUE
    /\ account = TRUE
    /\ probes = 1
    /\ balance \in Balances
    /\ pool = {}
    /\ mined = <<>>
    /\ started = 0
    /\ pc = [p \in Procs |-> "idle"]
    /\ args = [p \in Procs |-> [shipment_id |-> <<>>, location |-> <<>>,
                                status |-> <<>>, document_hash |-> <<>>]]
    /\ lv = [p \in Procs |-> NoLocals]
    /\ result = [p \in Procs |-> Failure("none")]
    /\ rpc = [p \in Procs |-> NoCalls]
    /\ outcome = [p \in Procs |-> "none"]
    /\ before = [p \in Procs |-> 0]
    /\ InitReads

\* one submission by each of two callers, which may overlap, on one connected
\* manager
NextConcurrent ==
    \/ \E tx \in pool, status \in {0, 1}, b \in Balances : Mine(tx, status, b)
    \/ \E p \in Procs :
         \/ \E s \in ShipmentIds, l \in Locations, st \in Statuses, d \in DocHashes :
                Call(p, s, l, st, d)
         \/ CallSteps(p)

SpecConcurrent == InitConnected /\ [][NextConcurrent]_vars

----------------------------------------------------------------------------
(* Claims about add_checkpoint *)

Blank(a) == IsBlank(a.shipment_id) \/ IsBlank(a.location) \/ IsBlank(a.status)

Returned(p) == pc[p] = "done"

\* C1: after a call that returned success, get_checkpoint_count for the
\* submitted id is one more than at call entry, and get_shipment_history for it
\* ends with an entry carrying the submitted location, status and documentHash.
C1_SuccessAddsOneEntry ==
    \A p \in Procs :
        (Returned(p) /\ result[p].success) =>
            LET h == GetShipmentHistory(args[p].shipment_id)
            IN  /\ GetCheckpointCount(args[p].shipment_id) = before[p] + 1
                /\ h # <<>>
                /\ h[Len(h)].location = args[p].location
                /\ h[Len(h)].status = args[p].status
                /\ h[Len(h)].documentHash = args[p].document_hash

\* C2: a call with a blank (empty or whitespace-only) shipment id, location or
\* status never gets past the early returns: it has returned a failure, a
\* validation failure when the manager is connected, and made no network call.
C2_BlankInputNoNetworkCall ==
    \A p \in Procs :
        (pc[p] # "idle" /\ Blank(args[p])) =>
            /\ Returned(p)
            /\ ~result[p].success
            /\ rpc[p] = NoCalls
            /\ lv[p].tx = {}
            /\ contract =>
                 result[p].class \in {"EmptyShipmentId", "EmptyLocation", "EmptyStatus"}

C2_Witness ==
    \E p \in Procs :
        /\ Returned(p)
        /\ contract
        /\ args[p].shipment_id = <<" ">>
        /\ result[p].class = "EmptyShipmentId"
        /\ rpc[p] = NoCalls

\* C3: the returned failure is that of the first precondition that fails, in
\* the order not connected, blank shipment id, blank location, blank status;
\* and a call with any of them failing returns at the precondition checks.
C3_FirstFailedPreconditionWins ==
    \A p \in Procs :
        Returned(p) =>
            LET a == args[p]
                first == IF ~contract THEN "NotConnected"
                         ELSE IF IsBlank(a.shipment_id) THEN "EmptyShipmentId"
                         ELSE IF IsBlank(a.location) THEN "EmptyLocation"
                         ELSE IF IsBlank(a.status) THEN "EmptyStatus"
                         ELSE "ok"
            IN  /\ (first # "ok") => (outcome[p] = "precheck" /\ result[p].class = first)
                /\ (first = "ok") => outcome[p] # "precheck"

C3_Witness ==
    \E p \in Procs :
        /\ Returned(p)
        /\ contract
        /\ IsBlank(args[p].shipment_id)
        /\ IsBlank(args[p].location)
        /\ IsBlank(args[p].status)
        /\ result[p].class = "EmptyShipmentId"

\* C4: a call that read a balance below the estimated maximum cost
\* (2000000 gas at 20 gwei) has returned the insufficient-balance failure and
\* has neither built or signed a transaction nor called send_raw_transaction.
C4_LowBalanceNeverBroadcasts ==
    \A p \in Procs :
        (lv[p].balance # -1 /\ lv[p].balance < EstimatedCost) =>
            /\ Returned(p)
            /\ ~result[p].success
            /\ result[p].class = "InsufficientBalance"
            /\ lv[p].tx = {}
            /\ rpc[p].send_raw_transaction = 0
            /\ rpc[p].wait_for_transaction_receipt = 0

C4_Witness ==
    \E p \in Procs :
        /\ Returned(p)
        /\ lv[p].balance = 39999999
        /\ result[p].class = "InsufficientBalance"
        /\ rpc[p].get_balance = 1
        /\ rpc[p].send_raw_transaction = 0

\* C5: once send_raw_transaction returned a transaction hash, the result the
\* call returns carries that hash, whether the call succeeds or fails.
C5_HashAlwaysReturned ==
    \A p \in Procs :
        (Returned(p) /\ lv[p].sent) =>
            \E d \in result[p].details : d.hash = TheTx(p)

\* C6: no automatic retry: one add_checkpoint call makes each of its network
\* calls at most once, in particular at most one send_raw_transaction and at
\* most one wait_for_transaction_receipt, whatever fails; and one connect()
\* probes the endpoint at most once.
C6_NoAutomaticRetry ==
    /\ probes <= 1
    /\ \A p \in Procs :
        /\ rpc[p].get_balance <= 1
        /\ rpc[p].estimate_gas <= 1
        /\ rpc[p].get_transaction_count <= 1
        /\ rpc[p].send_raw_transaction <= 1
        /\ rpc[p].wait_for_transaction_receipt <= 1
        /\ Returned(p) /\ outcome[p] \in {"broadcast_failed", "nonce_read_failed",
                                          "balance_read_failed", "balance_guard"}
             => rpc[p].wait_for_transaction_receipt = 0

C6_Witness ==
    \E p \in Procs :
        /\ Returned(p)
        /\ outcome[p] = "broadcast_failed"
        /\ rpc[p].send_raw_transaction = 1
        /\ lv[p].gas_estimate = -1

FailureKinds == {"timeout", "receipt_failed", "broadcast_failed"}

\* C7: a confirmation timeout, a receipt whose status flag is failure and a
\* failed broadcast are reported as three different failure classes: two calls
\* that ended in two different of these ways never return the same class.
C7_FailureClassesDistinct ==
    \A p, q \in Procs :
        (/\ Returned(p) /\ Returned(q)
         /\ outcome[p] \in FailureKinds /\ outcome[q] \in FailureKinds
         /\ outcome[p] # outcome[q])
            => result[p].class # result[q].class

\* C8 as stated: the declared gas limit is ceil(1.2 * estimate) when
\* estimate_gas answered and 2000000 when it raised.
C8_GasLimitRoundedUp ==
    \A p \in Procs :
        lv[p].tx # {} =>
            LET e == lv[p].gas_estimate
                g == TheTx(p).gas
            IN  IF e = -1 THEN g = 2000000
                ELSE 10 * (g - 1) < 12 * e /\ 12 * e <= 10 * g

\* C8 amended: the declared gas limit is 1.2 * estimate rounded down when
\* estimate_gas answered and 2000000 when it raised; a failed estimate does
\* not end the call, which goes on to read the nonce.
C8_GasLimitRoundedDown ==
    \A p \in Procs :
        /\ lv[p].tx # {} =>
            LET e == lv[p].gas_estimate
                g == TheTx(p).gas
            IN  IF e = -1 THEN g = 2000000
                ELSE 10 * g <= 12 * e /\ 12 * e < 10 * (g + 1)
        /\ (Returned(p) /\ rpc[p].estimate_gas = 1 /\ lv[p].gas_estimate = -1)
             => rpc[p].get_transaction_count = 1

C8_Witness ==
    \E p \in Procs :
        /\ lv[p].tx # {}
        /\ lv[p].gas_estimate = 99999
        /\ TheTx(p).gas = 119998

MinedTxs == {mined[i].tx : i \in 1..Len(mined)}

\* C9: with serialized submissions every transaction carries the transaction
\* count read just before it was built, and no two transactions the node took
\* from the account carry the same nonce.
C9_SerializedNoncesDistinct ==
    /\ \A p \in Procs : lv[p].tx # {} => TheTx(p).nonce = lv[p].nonce
    /\ \A t1, t2 \in pool \cup MinedTxs : t1 # t2 => t1.nonce # t2.nonce

\* C10: when two overlapping calls built their transactions with the same
\* nonce, the chain includes at most one of the two transactions and at most
\* one of the two calls returns success.
C10_SameNonceAtMostOneAccepted ==
    \A p, q \in Procs :
        (/\ p # q
         /\ lv[p].tx # {} /\ lv[q].tx # {}
         /\ TheTx(p).nonce = TheTx(q).nonce)
            => /\ ~(result[p].success /\ result[q].success)
               /\ TheTx(p) # TheTx(q) => ~(IsMined(TheTx(p)) /\ IsMined(TheTx(q)))

\* both calls read the same transaction count before either broadcast, both
\* broadcasts were taken, and one call succeeded while the other did not
C10_Witness ==
    \E p, q \in Procs :
        /\ p # q
        /\ Returned(p) /\ Returned(q)
        /\ lv[p].sent /\ lv[q].sent
        /\ TheTx(p) # TheTx(q)
        /\ lv[p].nonce = lv[q].nonce
        /\ result[p].success
        /\ ~result[q].success

----------------------------------------------------------------------------
(* connect() and disconnect() with what they reported *)

\* what connect() reports: the st.error of the first check that fails, the
\* handler's "Web3 connection error" when a library call raises, or True
ConnectOutcome(c, reachable, abiOk) ==
    IF c.rpc_url = "" THEN "MissingEndpoint"
    ELSE IF c.private_key = "" THEN "MissingKey"
    ELSE IF c.contract_address = "" THEN "MissingContractAddress"
    ELSE IF ~reachable THEN "Unreachable"
    ELSE IF c.private_key = "placeholder" THEN "ConnectionError"
    ELSE IF ~abiOk THEN "ArtifactMissing"
    ELSE IF c.contract_address = "placeholder" THEN "ConnectionError"
    ELSE "ok"

ConnectCall(reachable, abiOk) ==
    /\ Connect(reachable, abiOk)
    /\ session' = [afterDisconnect |->
                       IF ConnectOutcome(cfg, reachable, abiOk) = "ok"
                       THEN FALSE ELSE session.afterDisconnect,
                   lastConnect |-> ConnectOutcome(cfg, reachable, abiOk)]

DisconnectCall ==
    /\ Disconnect
    /\ session' = [session EXCEPT !.afterDisconnect = TRUE]

----------------------------------------------------------------------------
(* The chain as the readers see it *)

\* blocks produced in one behaviour
MaxBlocks == 2

\* the transactions other clients of the contract get mined (the scripts of
\* this repository submit with the same account): one addCheckpoint call per
\* block, block number = position in mined
ChainTx(sid) ==
    BuildTransaction([shipment_id |-> sid, location |-> <<"F">>,
                      status |-> <<"c">>, document_hash |-> <<>>],
                     TransactionCount, FallbackGas)

\* a new block with the transaction of another client, succeeded or reverted
Block(sid, status) ==
    /\ Len(mined) < MaxBlocks
    /\ mined' = Append(mined, [tx |-> ChainTx(sid), status |-> status])
    /\ UNCHANGED <<manager, balance, pool, callers, session, ui, reads, poller>>

\* w3.eth.block_number
BlockNumber == Len(mined)

----------------------------------------------------------------------------
(* The read operations: one action per call; op keeps the arguments, what   *)
(* the node did (answers: whether the contract call answers; FALSE: it      *)
(* raises: execution reverted, timeout, connection error) and what the call *)
(* gave back                                                                *)

\* what the reads leave of the manager and the chain: they assign no
\* attribute of self and send no transaction
ReadFrameResets ==
    /\ w3' = FALSE
    /\ UNCHANGED <<cfg, contract, account, probes, chain>>

ReadFrame == UNCHANGED <<manager, chain>>

Addresses == {<<>>, <<" ">>, <<"x">>, <<"a">>, <<" ", "a">>}

\* Web3.to_checksum_address accepts the string: "a" stands for 0x and 40 hex
\* digits, "x" for any other text
IsAddress(s) == s = <<"a">>

\* the role codes getRole may answer; 4 is a code the client has no name for
RoleCodes == 0 .. 4

\* role_names.get(role_num, "Unknown")
RoleNames(role_num) ==
    CASE role_num = 0 -> "None"
      [] role_num = 1 -> "Manufacturer"
      [] role_num = 2 -> "Courier"
      [] role_num = 3 -> "Inspector"
      [] OTHER        -> "Unknown"

Raised(name, arg, class, calls) ==
    [name |-> name, arg |-> arg, kind |-> "raised", class |-> class,
     value |-> <<>>, calls |-> calls, head |-> 0,
     afterDisconnect |-> session.afterDisconnect]

Gave(name, arg, value, calls) ==
    [name |-> name, arg |-> arg, kind |-> "returned", class |-> "none",
     value |-> value, calls |-> calls, head |-> 0,
     afterDisconnect |-> session.afterDisconnect]

\* get_connection_status(): nodeUp is whether block_number and get_balance answer
GetConnectionStatus(nodeUp) ==
    /\ op' = IF ~w3 THEN Gave("get_connection_status", [nodeUp |-> nodeUp], FALSE, 0)
             ELSE IF nodeUp
             THEN Gave("get_connection_status", [nodeUp |-> nodeUp], TRUE,
                       IF account THEN 2 ELSE 1)
             ELSE Gave("get_connection_status", [nodeUp |-> nodeUp], FALSE, 1)
    /\ ReadFrame
    /\ UNCHANGED <<callers, session, ui, prev, poller>>

CountZeroOnFailure(shipment_id, answers) ==
    LET arg == [shipment_id |-> shipment_id, answers |-> answers]
    IN  IF ~contract THEN Raised("get_checkpoint_count", arg, "NotConnected", 0)
        ELSE IF IsBlank(shipment_id)
        THEN Raised("get_checkpoint_count", arg, "InvalidInput", 0)
        ELSE IF ~answers
        THEN Gave("get_checkpoint_count", arg, 0, 1)
        ELSE Gave("get_checkpoint_count", arg, GetCheckpointCount(shipment_id), 1)

CheckpointCountResult(shipment_id, answers) ==
    LET arg == [shipment_id |-> shipment_id, answers |-> answers]
    IN  IF ~contract THEN Raised("get_checkpoint_count", arg, "NotConnected", 0)
        ELSE IF IsBlank(shipment_id)
        THEN Raised("get_checkpoint_count", arg, "InvalidInput", 0)
        ELSE IF ~answers
        THEN Raised("get_checkpoint_count", arg, "ReadError", 1)
        ELSE Gave("get_checkpoint_count", arg, GetCheckpointCount(shipment_id), 1)

\* get_checkpoint_count(shipment_id)
GetCheckpointCountCall(shipment_id, answers) ==
    /\ op' = CheckpointCountResult(shipment_id, answers)
    /\ ReadFrame
    /\ UNCHANGED <<callers, session, ui, prev, poller>>

\* get_shipment_history(shipment_id)
GetShipmentHistoryCall(shipment_id, answers) ==
    /\ LET arg == [shipment_id |-> shipment_id, answers |-> answers]
       IN  op' = IF ~contract
                 THEN Raised("get_shipment_history", arg, "NotConnected", 0)
                 ELSE IF IsBlank(shipment_id)
                 THEN Raised("get_shipment_history", arg, "InvalidInput", 0)
                 ELSE IF ~answers
                 THEN Raised("get_shipment_history", arg, "ReadError", 1)
                 ELSE Gave("get_shipment_history", arg,
                           GetShipmentHistory(shipment_id), 1)
    /\ ReadFrame
    /\ UNCHANGED <<callers, session, ui, prev, poller>>

UserRoleCallsFirst(address, answer) ==
    LET arg == [address |-> address, answer |-> answer]
    IN  IF ~contract THEN Raised("get_user_role", arg, "NotConnected", 0)
        ELSE IF answer = -1 THEN Raised("get_user_role", arg, "ReadError", 1)
        ELSE IF IsBlank(address) THEN Raised("get_user_role", arg, "InvalidInput", 1)
        ELSE IF ~IsAddress(Strip(address))
        THEN Raised("get_user_role", arg, "InvalidInput", 1)
        ELSE Gave("get_user_role", arg, RoleNames(answer), 1)

UserRoleResult(address, answer) ==
    LET arg == [address |-> address, answer |-> answer]
    IN  IF ~contract THEN Raised("get_user_role", arg, "NotConnected", 0)
        ELSE IF IsBlank(address) THEN Raised("get_user_role", arg, "InvalidInput", 0)
        ELSE IF ~IsAddress(Strip(address))
        THEN Raised("get_user_role", arg, "InvalidInput", 0)
        ELSE IF answer = -1 THEN Raised("get_user_role", arg, "ReadError", 1)
        ELSE Gave("get_user_role", arg, RoleNames(answer), 1)

\* get_user_role(address): answer is the code getRole answers for the
\* address, -1 when the contract call raises
GetUserRole(address, answer) ==
    /\ op' = UserRoleResult(address, answer)
    /\ ReadFrame
    /\ UNCHANGED <<callers, session, ui, prev, poller>>

----------------------------------------------------------------------------
(* get_recent_events: the CheckpointAdded log and one scan of it *)

\* limit: int = 10
DefaultLimit == 10

\* from_block = max(0, current_block - 1000) when no from_block is given
LookBack == 1000

\* the text 'Unknown'
Unknown == <<"U", "n", "k", "n", "o", "w", "n">>

Max(a, b) == IF a >= b THEN a ELSE b

RECURSIVE Ascending(_)
\* the numbers of S in increasing order
Ascending(S) ==
    IF S = {} THEN <<>>
    ELSE LET m == CHOOSE x \in S : \A y \in S : y <= x
         IN  Append(Ascending(S \ {m}), m)

\* the blocks from from_block on whose transaction emitted CheckpointAdded,
\* for the shipment id filtered on (no filter when shipment_id is falsy)
MatchingBlocksFromBefore(ms, shipment_id, from_block) ==
    {i \in 1..Len(ms) :
        /\ i >= from_block - 1
        /\ ms[i].status = 1
        /\ shipment_id = <<>> \/ ms[i].tx.shipmentId = shipment_id}

MatchingBlocks(ms, shipment_id, from_block) ==
    {i \in 1..Len(ms) :
        /\ i >= from_block
        /\ ms[i].status = 1
        /\ shipment_id = <<>> \/ ms[i].tx.shipmentId = shipment_id}

\* create_filter(from_block=..).get_all_entries(): the log entries up to the
\* head, in block order
AllEntries(ms, shipment_id, from_block) ==
    Ascending(MatchingBlocks(ms, shipment_id, from_block))

\* events[-limit:]
LastEntries(events, limit) ==
    IF limit = 0 \/ Len(events) <= limit THEN events
    ELSE SubSeq(events, Len(events) - limit + 1, Len(events))

\* one formatted event: failed holds the blocks whose secondary lookup
\* (receipt, transaction, input decoding) fails
FormatDropsFailed(ms, i, failed) ==
    IF i \in failed THEN <<>>
    ELSE << [shipmentId |-> ms[i].tx.shipmentId,
             location |-> ms[i].tx.location, status |-> ms[i].tx.status,
             blockNumber |-> i, transactionHash |-> ms[i].tx] >>

FormatEvent(ms, i, failed) ==
    << [shipmentId |-> IF i \in failed THEN Unknown ELSE ms[i].tx.shipmentId,
        location |-> ms[i].tx.location, status |-> ms[i].tx.status,
        blockNumber |-> i, transactionHash |-> ms[i].tx] >>

RECURSIVE FormatEvents(_, _, _)
FormatEvents(ms, entries, failed) ==
    IF entries = <<>> THEN <<>>
    ELSE FormatEvent(ms, Head(entries), failed)
             \o FormatEvents(ms, Tail(entries), failed)

\* what get_recent_events returns on a connected manager when no call of the
\* scan itself raises; from_block -1 stands for None
RecentEvents(ms, shipment_id, from_block, limit, failed) ==
    LET from == IF from_block = -1 THEN Max(0, Len(ms) - LookBack) ELSE from_block
    IN  FormatEvents(ms, LastEntries(AllEntries(ms, shipment_id, from), limit), failed)

\* get_recent_events(shipment_id, from_block, limit): fails is whether
\* block_number, create_filter or get_all_entries raises; head is the chain
\* head at the time of the call
GetRecentEvents(shipment_id, from_block, limit, failed, fails) ==
    /\ op' = [Gave("get_recent_events",
                   [shipment_id |-> shipment_id, from_block |-> from_block,
                    limit |-> limit, failed |-> failed, fails |-> fails],
                   IF ~contract \/ fails THEN <<>>
                   ELSE RecentEvents(mined, shipment_id, from_block, limit, failed),
                   0)
              EXCEPT !.head = BlockNumber]
    /\ ReadFrame
    /\ UNCHANGED <<callers, session, ui, poller>>

\* a caller that keeps the result of its previous scan
ScanAgain(shipment_id, from_block, limit, failed, fails) ==
    /\ GetRecentEvents(shipment_id, from_block, limit, failed, fails)
    /\ prev' = op

----------------------------------------------------------------------------
(* listen_for_new_events and its polling thread *)

\* scans of the polling thread in one behaviour
MaxScans == 3

\* listen_for_new_events(callback_function): returns at once without a
\* contract handle, else starts the thread; one thread is followed
ListenForNewEvents(callback) ==
    /\ pl.pc = "off" \/ ~contract
    /\ op' = Gave("listen_for_new_events",
                  [callback |-> callback, connected |-> contract], <<>>, 0)
    /\ pl' = IF ~contract THEN pl
             ELSE [pl EXCEPT !.pc = "init", !.callback = callback]
    /\ ReadFrame
    /\ UNCHANGED <<callers, session, ui, prev, delivered, scans>>

\* last_block = self.w3.eth.block_number, before the loop and outside its try
PollInit(raises) ==
    /\ pl.pc = "init"
    /\ pl' = IF raises \/ ~w3 THEN [pl EXCEPT !.pc = "dead"]
             ELSE [pl EXCEPT !.pc = "head", !.first_block = BlockNumber,
                                            !.last_block = BlockNumber]
    /\ UNCHANGED <<manager, chain, callers, session, ui, reads, delivered, scans>>

\* current_block = self.w3.eth.block_number; if current_block > last_block
PollHead(raises) ==
    /\ pl.pc = "head"
    /\ pl' = IF raises \/ ~w3 THEN [pl EXCEPT !.pc = "except"]
             ELSE [pl EXCEPT !.current_block = BlockNumber,
                             !.pc = IF BlockNumber > pl.last_block
                                    THEN "scan" ELSE "sleep"]
    /\ UNCHANGED <<manager, chain, callers, session, ui, reads, delivered, scans>>

\* after the scan: callback pending, or last_block = current_block
AfterScan(events) ==
    IF events # <<>> /\ pl.callback
    THEN [pl EXCEPT !.pc = "callback", !.events = events]
    ELSE [pl EXCEPT !.pc = "sleep", !.last_block = pl.current_block,
                    !.retry_from = 0]

\* events = self.get_recent_events(from_block=last_block + 1): without a
\* contract handle it returns [] at once and covers no block; else the filter
\* runs to the head at the time of the scan, and a failing scan gives []
PollScan(failed, fails) ==
    /\ pl.pc = "scan"
    /\ IF ~contract
       THEN /\ pl' = AfterScan(<<>>)
            /\ UNCHANGED scans
       ELSE /\ Len(scans) < MaxScans
            /\ pl' = AfterScan(IF fails THEN <<>>
                               ELSE RecentEvents(mined, <<>>, pl.last_block + 1,
                                                 DefaultLimit, failed))
            /\ scans' = Append(scans, [from |-> pl.last_block + 1,
                                       to |-> BlockNumber,
                                       failed |-> fails])
    /\ UNCHANGED <<manager, chain, callers, session, ui, reads, delivered>>

CallbackRaiseEndsThread == [pl EXCEPT !.pc = "dead", !.events = <<>>]

\* the callback raised: the loop's handler is entered, last_block is kept
CallbackRaise ==
    [pl EXCEPT !.pc = "except", !.events = <<>>, !.retry_from = pl.last_block + 1]

\* callback_function(events); last_block = current_block
PollCallback(raises) ==
    /\ pl.pc = "callback"
    /\ delivered' = Append(delivered, pl.events)
    /\ pl' = IF raises THEN CallbackRaise
             ELSE [pl EXCEPT !.pc = "sleep", !.events = <<>>,
                             !.last_block = pl.current_block, !.retry_from = 0]
    /\ UNCHANGED <<manager, chain, callers, session, ui, reads, scans>>

\* time.sleep(poll_interval), in the loop or in its handler, then the next turn
PollSleep ==
    /\ pl.pc \in {"sleep", "except"}
    /\ pl' = [pl EXCEPT !.pc = "head"]
    /\ UNCHANGED <<manager, chain, callers, session, ui, reads, delivered, scans>>

PollSteps ==
    \/ \E raises \in BOOLEAN : PollInit(raises)
    \/ \E raises \in BOOLEAN : PollHead(raises)
    \/ \E failed \in {{}, {Len(mined)}}, fails \in BOOLEAN : PollScan(failed, fails)
    \/ \E raises \in BOOLEAN : PollCallback(raises)
    \/ PollSleep

----------------------------------------------------------------------------
(* Specifications of the read side *)

ChainIds == {<<"A">>, <<" ", "A">>}

\* add_checkpoint called on a manager without contract handle: the whole call
\* is its first early return
AddCheckpointWithoutContract(shipment_id, location, status) ==
    /\ ~contract
    /\ op' = Gave("add_checkpoint", shipment_id,
                  Failure(Precheck(contract, account, shipment_id, location, status)), 0)
    /\ ReadFrame
    /\ UNCHANGED <<callers, session, ui, prev, poller>>

\* the connection lifecycle and every operation of the manager called in any
\* connection state, on a chain of successful checkpoint transactions
\* (Spec follows add_checkpoint through a submission, SpecPolling the thread
\* listen_for_new_events starts on a connected manager)
InitClient == Init /\ balance = 40800000

NextClient ==
    \/ \E reachable \in BOOLEAN, abiOk \in BOOLEAN : ConnectCall(reachable, abiOk)
    \/ DisconnectCall
    \/ Block(<<"A">>, 1)
    \/ \E nodeUp \in BOOLEAN : GetConnectionStatus(nodeUp)
    \/ \E sid \in ShipmentIds, answers \in BOOLEAN : GetCheckpointCountCall(sid, answers)
    \/ \E sid \in ShipmentIds, answers \in BOOLEAN : GetShipmentHistoryCall(sid, answers)
    \/ \E a \in Addresses, answer \in RoleCodes \cup {-1} : GetUserRole(a, answer)
    \/ \E limit \in {1, DefaultLimit}, failed \in SUBSET (1..Len(mined)),
          fails \in BOOLEAN :
           GetRecentEvents(<<>>, -1, limit, failed, fails) /\ UNCHANGED prev
    \/ \E callback \in BOOLEAN : ~contract /\ ListenForNewEvents(callback)
    \/ \E sid \in ShipmentIds : AddCheckpointWithoutContract(sid, <<"F">>, <<"c">>)

SpecClient == InitClient /\ [][NextClient]_vars

\* scans of the event log by a caller that keeps its previous result and
\* scans from the genesis block or from the block after the head it saw last,
\* on a connected manager and a growing chain of successful checkpoint
\* transactions
InitConnectedIdle == InitConnected /\ balance = 40800000

NextEvents ==
    \/ \E sid \in ChainIds : Block(sid, 1)
    \/ \E sid \in {<<>>, <<"A">>}, from_block \in {0, op.head + 1},
          limit \in {1, DefaultLimit}, fails \in BOOLEAN :
           ScanAgain(sid, from_block, limit, {}, fails)

SpecEvents == InitConnectedIdle /\ [][NextEvents]_vars

\* the polling thread on a growing chain, the manager being disconnected and
\* reconnected under it
NextPolling ==
    \/ \E status \in {0, 1} : Block(<<"A">>, status)
    \/ \E callback \in BOOLEAN : ListenForNewEvents(callback) /\ pl.pc = "off"
    \/ PollSteps
    \/ ConnectCall(TRUE, TRUE)
    \/ DisconnectCall

SpecPolling == InitConnectedIdle /\ [][NextPolling]_vars

\* the thread is scheduled again and again (it is a running daemon thread
\* whose every step terminates: each RPC call answers or raises, sleep ends)
SpecPollingFair == SpecPolling /\ WF_vars(PollSteps)

----------------------------------------------------------------------------
(* Claims about the connection lifecycle and the reads *)

\* the last operation was called after a disconnect() that no successful
\* connect() has followed
CalledAfterDisconnect == op.name # "none" /\ op.afterDisconnect

\* C11: an operation called after disconnect() and before a later successful
\* connect() fails with a not-connected error (add_checkpoint reports it in
\* its result, the others raise it), and get_connection_status reports
\* connected = false.
C11_AfterDisconnectOperationsFail ==
    CalledAfterDisconnect =>
        CASE op.name = "get_connection_status" -> op.value = FALSE
          [] op.name = "add_checkpoint" -> op.value = Failure("NotConnected")
          [] OTHER -> op.kind = "raised" /\ op.class = "NotConnected"

\* the first configuration value, in the order endpoint, key, contract address,
\* that is missing or still the placeholder of the sample .env
FirstUnusable(c) ==
    IF c.rpc_url \in {"", "placeholder"} THEN "MissingEndpoint"
    ELSE IF c.private_key \in {"", "placeholder"} THEN "MissingKey"
    ELSE IF c.contract_address \in {"", "placeholder"} THEN "MissingContractAddress"
    ELSE "none"

\* C12: connect() on a configuration with a missing or placeholder value fails
\* with the error of the first such field (endpoint, key, contract address),
\* before any network call and without creating the RPC client.
C12_ConnectValidatesConfiguration ==
    (session.lastConnect # "none" /\ FirstUnusable(cfg) # "none") =>
        /\ session.lastConnect = FirstUnusable(cfg)
        /\ probes = 0
        /\ ~w3

PureReads ==
    {"get_connection_status", "get_checkpoint_count", "get_shipment_history",
     "get_user_role"}

\* C13: a call of get_connection_status, get_checkpoint_count,
\* get_shipment_history or get_user_role, in any connection state and in any
\* order with the other operations, leaves the manager's state (configuration,
\* client, contract and account handles) and the chain (balance, pending and
\* mined transactions) as they were.
C13_ReadsChangeNothing ==
    [][(op' # op /\ op'.name \in PureReads) => UNCHANGED <<manager, chain>>]_vars

\* get_shipment_history has answered with a stored checkpoint on a connected
\* manager
C13_Witness ==
    /\ contract
    /\ w3
    /\ op.name = "get_shipment_history"
    /\ op.kind = "returned"
    /\ Len(op.value) > 0
    /\ mined # <<>>

\* C14: get_checkpoint_count on a connected manager with a non-blank id:
\* when the contract answers and holds no checkpoint for the id, the call
\* returns 0 and does not raise; when the contract call fails or reverts the
\* call raises, and a returned 0 always is the contract's own count.
C14_ZeroCountIsNotAFailure ==
    [][(/\ op' # op
        /\ op'.name = "get_checkpoint_count"
        /\ contract
        /\ ~IsBlank(op'.arg.shipment_id))
       => LET count == ContractCount(Strip(op'.arg.shipment_id))
          IN  /\ (op'.arg.answers /\ count = 0)
                     => (op'.kind = "returned" /\ op'.value = 0)
              /\ ~op'.arg.answers => op'.kind = "raised"
              /\ (op'.kind = "returned" /\ op'.value = 0) => count = 0]_vars

\* a count of 0 was returned, on a connected manager, for a non-blank id the
\* contract holds no checkpoint for
C14_Witness ==
    /\ op.name = "get_checkpoint_count"
    /\ contract
    /\ op.kind = "returned"
    /\ op.value = 0
    /\ op.arg.answers
    /\ ~IsBlank(op.arg.shipment_id)

\* C15: get_user_role on a connected manager: a blank or malformed address is
\* rejected with an error before any contract call; for a well-formed address
\* the role codes 0, 1, 2, 3 give "None", "Manufacturer", "Courier",
\* "Inspector", code 0 (never granted a role) without raising.
C15_UserRoleNames ==
    (op.name = "get_user_role" /\ op.class # "NotConnected") =>
        LET address == op.arg.address
            code    == op.arg.answer
        IN  IF IsBlank(address) \/ ~IsAddress(Strip(address))
            THEN op.kind = "raised" /\ op.class = "InvalidInput" /\ op.calls = 0
            ELSE /\ code = 0 => (op.kind = "returned" /\ op.value = "None")
                 /\ code = 1 => (op.kind = "returned" /\ op.value = "Manufacturer")
                 /\ code = 2 => (op.kind = "returned" /\ op.value = "Courier")
                 /\ code = 3 => (op.kind = "returned" /\ op.value = "Inspector")

\* "None" was returned for a well-formed address the contract answers code 0 for
C15_Witness ==
    /\ op.name = "get_user_role"
    /\ IsAddress(Strip(op.arg.address))
    /\ op.arg.answer = 0
    /\ op.kind = "returned"
    /\ op.value = "None"
    /\ op.calls = 1

----------------------------------------------------------------------------
(* Claims about the event scans and the polling thread *)

\* the events of a returned list, by block and transaction
EventIds(events) ==
    {<<events[i].blockNumber, events[i].transactionHash>> : i \in 1..Len(events)}

\* C16: of two get_recent_events scans over a chain that does not change
\* between them, the second with from_block = the head observed at the first
\* scan + 1, no event is returned by both.
C16_ConsecutiveScansDisjoint ==
    (/\ prev.name = "get_recent_events"
     /\ op.name = "get_recent_events"
     /\ op.head = prev.head
     /\ op.arg.from_block = prev.head + 1)
    => EventIds(prev.value) \cap EventIds(op.value) = {}

\* the first scan returned the event of the head block, the second started
\* one block above that head on the same chain
C16_Witness ==
    /\ prev.name = "get_recent_events"
    /\ op.name = "get_recent_events"
    /\ prev.head > 0
    /\ op.head = prev.head
    /\ op.arg.from_block = prev.head + 1
    /\ ~op.arg.fails
    /\ \E i \in 1..Len(prev.value) : prev.value[i].blockNumber = prev.head

\* the events passed to the callback, as (call, position) -> block and transaction
Passed ==
    {<<i, k>> \in (1..Len(delivered)) \X (1..MaxBlocks + 1) : k <= Len(delivered[i])}

\* C17: during one polling lifetime, the head advancing at any moment, the
\* block ranges of the scans are disjoint (each scan starts above the last
\* block the scan before it covered) and no CheckpointAdded event is passed to
\* the callback twice.
C17_NoBlockScannedTwice ==
    /\ \A i, j \in 1..Len(scans) : i < j => scans[i].to < scans[j].from
    /\ \A x, y \in Passed :
           x # y =>
               <<delivered[x[1]][x[2]].blockNumber, delivered[x[1]][x[2]].transactionHash>>
                   # <<delivered[y[1]][y[2]].blockNumber, delivered[y[1]][y[2]].transactionHash>>

\* the blocks whose event was passed to the callback
PassedBlocks == {delivered[x[1]][x[2]].blockNumber : x \in Passed}

\* C18: while the polling thread runs and the manager stays connected, every
\* block produced after polling started that the thread has moved past
\* (first_block < b <= last_block) was covered by a scan and its event was
\* passed to the callback, also when a scan failed; since scans start at
\* last_block + 1 and last_block never decreases, an event missing here is
\* never passed later.
C18_NoEventSkipped ==
    (pl.pc \notin {"off", "init", "dead"} /\ pl.callback /\ session = NoSession) =>
        \A b \in (pl.first_block + 1) .. pl.last_block :
            /\ \E i \in 1..Len(scans) : scans[i].from <= b /\ b <= scans[i].to
            /\ mined[b].status = 1 => b \in PassedBlocks

\* C19: in one scan on a connected manager, the events whose secondary lookup
\* fails are returned with shipment id 'Unknown' and their other fields, the
\* other events as without any lookup failure; the number of events returned
\* is that of the scan without lookup failures.
C19_LookupFailureMarksOneEvent ==
    [][(op' # op /\ op'.name = "get_recent_events" /\ contract /\ ~op'.arg.fails)
       => LET a == op'.arg
              plain == RecentEvents(mined, a.shipment_id, a.from_block, a.limit, {})
          IN  /\ Len(op'.value) = Len(plain)
              /\ \A i \in 1..Len(plain) :
                     op'.value[i] =
                         IF plain[i].blockNumber \in a.failed
                         THEN [plain[i] EXCEPT !.shipmentId = Unknown]
                         ELSE plain[i]]_vars

\* a scan returned two events, the first with a failed lookup and shipment id
\* 'Unknown', the second with its shipment id
C19_Witness ==
    /\ op.name = "get_recent_events"
    /\ op.arg.failed = {1}
    /\ Len(op.value) = 2
    /\ op.value[1].shipmentId = Unknown
    /\ op.value[1].blockNumber = 1
    /\ op.value[2].shipmentId = <<"A">>

LoopPcs == {"head", "scan", "callback", "sleep", "except"}

\* C20 as claimed: whatever error is raised while the thread reads the chain
\* head, scans or invokes the callback, the thread is still running.
C20_ThreadSurvivesAnyError == pl.pc # "dead"

\* C20: an error raised inside the polling loop (the head read of a turn, the
\* callback; a failing scan gives [] and raises nothing) never ends the
\* thread: it enters the loop's handler, whose only continuation is the sleep
\* followed by the next turn; only an error of the head read before the loop
\* ends the thread.
C20_LoopSurvivesErrors ==
    [][/\ pl.pc \in LoopPcs => pl'.pc \in LoopPcs
       /\ (pl.pc = "except" /\ pl'.pc # "except") => pl'.pc = "head"]_vars

\* the callback raised on a delivered event list and the loop's handler was entered
C20_Witness ==
    /\ pl.pc = "except"
    /\ delivered # <<>>

\* C21: once disconnect() was called (and as long as no connect() succeeds
\* again) a polling thread that is in its loop eventually leaves it: it stops,
\* making no further scan and no further callback invocation.
C21_PollingStopsAfterDisconnect ==
    [](  (session.afterDisconnect /\ pl.pc \in LoopPcs)
      => <>(pl.pc \notin LoopPcs \/ ~session.afterDisconnect))

\* C22: an operation that fails reports it: a read, an event scan or the start
\* of the poller whose node call fails, or that is called without a contract
\* handle, raises; add_checkpoint without a contract handle returns
\* success = false with a failure class; none gives back an ordinary empty or
\* successful result.
C22_NoFailureSwallowed ==
    /\ (op.name \in {"get_checkpoint_count", "get_shipment_history"} /\ ~op.arg.answers)
           => op.kind = "raised"
    /\ (op.name = "get_user_role" /\ op.arg.answer = -1) => op.kind = "raised"
    /\ (op.name = "get_recent_events" /\ op.arg.fails) => op.kind = "raised"
    /\ (op.name = "listen_for_new_events" /\ ~op.arg.connected) => op.kind = "raised"
    /\ op.name = "add_checkpoint"
           => (~op.value.success /\ op.value.class # "none")

----------------------------------------------------------------------------
(* test_session_state.py: the three-key confirmation flow of one browser
   session.  Every action is one user event with the script run it triggers
   and the run st.rerun() starts after it. *)

MaxReruns == 2

TestInputs == {<<>>, <<"x">>, <<"y">>}

\* truth value of a text key: None and "" are falsy
TruthyText(v) == v # PyNone /\ v[1] # <<>>

\* lines 27-36: the form was submitted with test_input
SubmitTest(s, test_input) ==
    IF test_input # <<>>
    THEN [test_data |-> Some(test_input), awaiting_confirmation |-> TRUE,
          confirm_test |-> FALSE]
    ELSE s

\* line 39: the Confirm and Cancel buttons are rendered
AwaitingShown(s) == s.awaiting_confirmation /\ TruthyText(s.test_data)

\* line 56: the success message and the Reset button are rendered
SuccessShown(s) ==
    s.confirm_test /\ TruthyText(s.test_data) /\ ~s.awaiting_confirmation

ConfirmTestKeepsAwaiting(s) == [s EXCEPT !.confirm_test = TRUE]

\* lines 44-47
ConfirmTest(s) == [s EXCEPT !.confirm_test = TRUE, !.awaiting_confirmation = FALSE]

\* lines 49-53 and 61-65
ClearTest(s) ==
    [s EXCEPT !.test_data = PyNone, !.awaiting_confirmation = FALSE,
              !.confirm_test = FALSE]

TestFrame ==
    UNCHANGED <<manager, chain, callers, session, reads, poller, page_state, page_ui>>

TestSubmit(test_input) ==
    /\ test_state' = SubmitTest(test_state, test_input)
    /\ test_ui' = [event |-> "submit", input |-> test_input, reruns |-> 0]
    /\ TestFrame

TestConfirm ==
    /\ AwaitingShown(test_state)
    /\ test_state' = ConfirmTest(test_state)
    /\ test_ui' = [test_ui EXCEPT !.event = "confirm"]
    /\ TestFrame

TestCancel ==
    /\ AwaitingShown(test_state)
    /\ test_state' = ClearTest(test_state)
    /\ test_ui' = [test_ui EXCEPT !.event = "cancel"]
    /\ TestFrame

TestReset ==
    /\ SuccessShown(test_state)
    /\ test_state' = ClearTest(test_state)
    /\ test_ui' = [test_ui EXCEPT !.event = "reset"]
    /\ TestFrame

\* lines 108-111: every key is deleted, the run after st.rerun() stores the
\* initial values again (lines 13-18)
TestClearAll ==
    /\ test_state' = InitialTestState
    /\ test_ui' = [test_ui EXCEPT !.event = "clear"]
    /\ TestFrame

\* a script run without a user event: the keys exist (lines 13-18 skip), the
\* form was not submitted and no button was clicked
TestRerun ==
    /\ test_ui.reruns < MaxReruns
    /\ test_state' = test_state
    /\ test_ui' = [test_ui EXCEPT !.event = "rerun", !.reruns = @ + 1]
    /\ TestFrame

TestApp ==
    \/ \E test_input \in TestInputs : TestSubmit(test_input)
    \/ TestConfirm
    \/ TestCancel
    \/ TestReset
    \/ TestClearAll
    \/ TestRerun

----------------------------------------------------------------------------
(* app.py, add_checkpoint_page: the confirmation flow of the Add Checkpoint
   page.  Every action is one script run of the page: the run a user event
   triggers, or a run without an event (st.rerun(), a widget elsewhere). *)

MaxClicks == 2

\* what the form holds when it is submitted (the status radio always has a value)
Forms == [shipment_id : {<<" ">>, <<"A">>, <<" ", "A">>}, location : {<<"F">>, <<"G">>}]

\* get_user_role gave a role name (or no account is set), "None", or raised
RoleChecks == {"ok", "None", "raises"}

\* the duplicate check: no duplicate, get_shipment_history raised, or a
\* duplicate with the choice of the override radio
DuplicateChecks == {"none", "raises", "cancel", "edit", "continue"}

\* w3_manager.add_checkpoint returned success, returned failure, or raised
SubmitResults == {"success", "failure", "exception"}

\* the script run is stopped at a Streamlit call by a rerun request (a widget
\* the user touched while the run was busy): not at all, at a call before
\* w3_manager.add_checkpoint, or at the call after it.  The request is not
\* an Exception, so line 1181 does not catch it and lines 1194-1196 are
\* not reached.
Interrupts == {"none", "before", "after"}

\* truth value of st.session_state.get(flag)
Flag(v) == v = Some(TRUE)

\* lines 951-953 and 1027-1036
StoreCheckpoint(form) ==
    [pending_checkpoint |-> Some([shipment_id |-> Strip(form.shipment_id),
                                  location |-> Strip(form.location)]),
     show_confirmation |-> Some(TRUE),
     confirm_submission |-> Some(FALSE)]

\* line 1041
DialogShown(s) == Flag(s.show_confirmation) /\ s.pending_checkpoint # PyNone

ConfirmKeepsDialog(s) == [s EXCEPT !.confirm_submission = Some(TRUE)]

\* lines 1099-1100
ConfirmSubmission(s) ==
    [s EXCEPT !.confirm_submission = Some(TRUE), !.show_confirmation = Some(FALSE)]

\* lines 1104-1106
CancelSubmission(s) ==
    [s EXCEPT !.pending_checkpoint = PyNone, !.show_confirmation = Some(FALSE),
              !.confirm_submission = Some(FALSE)]

\* line 1120
SubmissionDue(s) ==
    /\ s.confirm_submission = Some(TRUE)
    /\ s.pending_checkpoint # PyNone
    /\ ~Flag(s.show_confirmation)

\* lines 1194-1196
ClearSubmission(s) ==
    [s EXCEPT !.confirm_submission = Some(FALSE), !.pending_checkpoint = PyNone,
              !.show_confirmation = Some(FALSE)]

\* the run ends: what it did, the keys it leaves, the widgets it rendered,
\* whether it asked for a rerun, and the calls of add_checkpoint it made
EndRun(event, did, state, rendered, rerun, calls) ==
    /\ page_state' = state
    /\ page_ui' = [event |-> event, did |-> did, rerun |-> rerun,
                   rendered |-> rendered,
                   clicks |-> page_ui.clicks + (IF did = "confirmed" THEN 1 ELSE 0),
                   calls |-> page_ui.calls + calls]

\* add_checkpoint_page(w3_manager), top to bottom
AddCheckpointPage(event, role, form, dup, answer, interrupt) ==
    IF role # "ok"
    THEN EndRun(event, "no_role", page_state, {}, FALSE, 0)               \* lines 824-853
    ELSE IF event = "submit"                                            \* line 916
    THEN IF Strip(form.shipment_id) = <<>> \/ Strip(form.location) = <<>>
         THEN EndRun(event, "invalid", page_state, {"form"}, FALSE, 0)  \* line 948
         ELSE IF dup = "cancel"
         THEN EndRun(event, "duplicate", page_state, {"form"}, FALSE, 0)  \* line 1008
         ELSE IF dup = "edit"
         THEN EndRun(event, "duplicate", page_state, {"form"}, TRUE, 0)   \* line 1016
         ELSE EndRun(event, "stored", StoreCheckpoint(form), {"form"}, TRUE, 0)
    ELSE IF DialogShown(page_state)
    THEN IF event = "confirm"
         THEN EndRun(event, "confirmed", ConfirmSubmission(page_state),
                     {"form", "dialog"}, TRUE, 0)
         ELSE IF event = "cancel"
         THEN EndRun(event, "cancelled", CancelSubmission(page_state),
                     {"form", "dialog"}, TRUE, 0)
         ELSE EndRun(event, "dialog", page_state, {"form", "dialog"}, FALSE, 0)  \* line 1117
    ELSE IF SubmissionDue(page_state)
    THEN /\ page_ui.calls <= MaxClicks
         /\ IF interrupt = "before"
            THEN EndRun(event, "stopped", page_state, {"form"}, FALSE, 0)
            ELSE IF interrupt = "after"
            THEN EndRun(event, "stopped", page_state, {"form"}, FALSE, 1)
            ELSE EndRun(event, answer, ClearSubmission(page_state), {"form"}, FALSE, 1)
    ELSE EndRun(event, "form", page_state, {"form"}, FALSE, 0)

PageFrame ==
    UNCHANGED <<manager, chain, callers, session, reads, poller, test_state, test_ui>>

\* the user submits the form the last run rendered
PageSubmit(role, form, dup) ==
    /\ ~page_ui.rerun
    /\ "form" \in page_ui.rendered
    /\ AddCheckpointPage("submit", role, form, dup, "success", "none")
    /\ PageFrame

\* the user clicks Confirm Submission in the dialog the last run rendered
PageConfirm(role) ==
    /\ ~page_ui.rerun
    /\ "dialog" \in page_ui.rendered
    /\ page_ui.clicks < MaxClicks
    /\ AddCheckpointPage("confirm", role, [shipment_id |-> <<>>, location |-> <<>>],
                         "none", "success", "none")
    /\ PageFrame

\* the user clicks Cancel in the dialog the last run rendered
PageCancel(role) ==
    /\ ~page_ui.rerun
    /\ "dialog" \in page_ui.rendered
    /\ AddCheckpointPage("cancel", role, [shipment_id |-> <<>>, location |-> <<>>],
                         "none", "success", "none")
    /\ PageFrame

\* a run without an event of the page's widgets
PageRerun(role, answer, interrupt) ==
    /\ AddCheckpointPage("run", role, [shipment_id |-> <<>>, location |-> <<>>],
                         "none", answer, interrupt)
    /\ PageFrame

PageApp ==
    \/ \E role \in RoleChecks, form \in Forms, dup \in DuplicateChecks :
           PageSubmit(role, form, dup)
    \/ \E role \in RoleChecks : PageConfirm(role)
    \/ \E role \in RoleChecks : PageCancel(role)
    \/ \E role \in RoleChecks, answer \in SubmitResults, interrupt \in Interrupts :
           PageRerun(role, answer, interrupt)

(* Both user interfaces, each in its own browser session; main() shows the
   page only while the manager reports a connection *)
NextUI == TestApp \/ PageApp

SpecUI == InitConnectedIdle /\ [][NextUI]_vars

----------------------------------------------------------------------------
(* Claims about the confirmation flows of the user interfaces *)

\* C23: in the test app, submitting a non-empty input x stores it and awaits
\* confirmation; a rerun changes none of the three keys, so that Confirm,
\* after any number of reruns, gives the success state (confirm_test true,
\* awaiting_confirmation false, test_data = x); submitting an empty input
\* leaves the three keys as they were; Cancel and Reset give them their
\* initial values.
C23_TestFlowReachesSuccess ==
    [][/\ (test_ui'.event = "submit" /\ test_ui'.input # <<>>)
              => test_state' = [test_data |-> Some(test_ui'.input),
                                awaiting_confirmation |-> TRUE,
                                confirm_test |-> FALSE]
       /\ (test_ui'.event = "submit" /\ test_ui'.input = <<>>)
              => test_state' = test_state
       /\ test_ui'.event = "rerun" => test_state' = test_state
       /\ (test_ui'.event = "confirm" /\ test_ui'.input # <<>>)
              => test_state' = [test_data |-> Some(test_ui'.input),
                                awaiting_confirmation |-> FALSE,
                                confirm_test |-> TRUE]
       /\ test_ui'.event \in {"cancel", "reset"} => test_state' = InitialTestState
      ]_vars

\* "x" was submitted, the script reran twice, Confirm was clicked
C23_Witness ==
    /\ test_ui = [event |-> "confirm", input |-> <<"x">>, reruns |-> MaxReruns]
    /\ test_state.confirm_test
    /\ test_state.test_data = Some(<<"x">>)

\* the three combinations of (data, shown for confirmation, confirmed)
Combination(data, shown, confirmed) ==
    \/ ~data /\ ~shown /\ ~confirmed
    \/ data /\ shown /\ ~confirmed
    \/ data /\ ~shown /\ confirmed

\* C24: between script runs the keys of the Add Checkpoint page, read as the
\* page reads them, are in one of three combinations: nothing pending and
\* both flags false; data pending and only show_confirmation true; data
\* pending and only confirm_submission true.  The same holds for test_data,
\* awaiting_confirmation and confirm_test of the test app.
C24_ThreeCombinations ==
    /\ Combination(page_state.pending_checkpoint # PyNone,
                   Flag(page_state.show_confirmation),
                   Flag(page_state.confirm_submission))
    /\ Combination(test_state.test_data # PyNone,
                   test_state.awaiting_confirmation,
                   test_state.confirm_test)

\* Confirm was clicked on the page, its submission is due; the test app
\* awaits confirmation
C24_Witness ==
    /\ page_ui.did = "confirmed"
    /\ SubmissionDue(page_state)
    /\ AwaitingShown(test_state)

\* C25: the page calls w3_manager.add_checkpoint at most once for each click
\* on Confirm, and a run that called it leaves the three keys cleared.
C25_OneSubmissionPerConfirm ==
    /\ page_ui.calls <= page_ui.clicks
    /\ page_ui.did \in SubmitResults => page_state = ClearSubmission(page_state)

----------------------------------------------------------------------------
(* add_checkpoint's exception handler on its own: every error text, raised
   by any statement of the try block *)

\* the statements of the try block that call the client library
Stages == {"build", "sign", "broadcast", "wait"}

\* lines 313-328: the statement of the given stage raised an exception whose
\* lower-cased text holds the keywords err; the handler returns
ExceptHandler(stage, err) ==
    /\ contract /\ account
    /\ op' = Gave("add_checkpoint", [stage |-> stage, err |-> err],
                  ExceptionResult(err), 0)
    /\ ReadFrame
    /\ UNCHANGED <<callers, session, ui, prev, poller>>

NextHandler == \E stage \in Stages, err \in SUBSET Keywords : ExceptHandler(stage, err)

SpecHandler == InitConnectedIdle /\ [][NextHandler]_vars

\* the keywords in the order of the claim, with the class each stands for
Priority ==
    << <<"insufficient funds", "InsufficientFunds">>, <<"nonce", "NonceError">>,
       <<"gas", "GasEstimationFailed">>, <<"revert", "Reverted">>,
       <<"unauthorized", "Unauthorized">>, <<"role", "Unauthorized">> >>

\* the class of the first keyword of Priority found in err
FirstClass(err) ==
    LET hits == {i \in 1..Len(Priority) : Priority[i][1] \in err}
    IN  IF hits = {} THEN "TransactionError"
        ELSE Priority[CHOOSE i \in hits : \A j \in hits : i <= j][2]

\* C26: when a statement of add_checkpoint's try block raises, the call
\* returns success = false, no transaction details, and the one class of the
\* first keyword found in the error text in the order 'insufficient funds',
\* 'nonce', 'gas', 'revert', 'unauthorized' or 'role', else the generic
\* transaction error.
C26_FirstKeywordDecidesClass ==
    op.name = "add_checkpoint"
        => op.value = [success |-> FALSE, class |-> FirstClass(op.arg.err),
                       details |-> {}]

\* broadcast raised a text with both 'revert' and 'unauthorized': reverted
C26_Witness ==
    /\ op.name = "add_checkpoint"
    /\ op.arg = [stage |-> "broadcast", err |-> {"revert", "unauthorized"}]
    /\ op.value.class = "Reverted"

----------------------------------------------------------------------------
(* Claims about the reported connection status, the gas limit and the
   shipment key *)

\* C27: whenever get_connection_status reports connected = true, the
\* contract handle and the account are set, the most recent connect()
\* returned True and no disconnect() followed it.
C27_ConnectedMeansLastConnectSucceeded ==
    [][(op' # op /\ op'.name = "get_connection_status" /\ op'.value = TRUE)
           => /\ contract' /\ account'
              /\ session'.lastConnect = "ok"
              /\ ~session'.afterDisconnect]_vars

\* C28: every transaction add_checkpoint builds declares a gas limit of at
\* most 2000000, so that a call whose balance passed the balance guard holds
\* the declared maximum cost (gas limit x gas price) of its transaction.
C28_DeclaredCostWithinGuard ==
    \A p \in Procs :
        lv[p].tx # {} =>
            /\ TheTx(p).gas <= FallbackGas
            /\ TheTx(p).gas * GasPriceGwei <= EstimatedCost
            /\ lv[p].balance >= TheTx(p).gas * GasPriceGwei

\* C29: for every non-blank shipment id, padded with whitespace or not,
\* get_checkpoint_count(id) is the number of entries of
\* get_shipment_history(id) on the same chain state, and after a successful
\* add_checkpoint(id, ...) both count that checkpoint.
C29_SameKeyForSameId ==
    /\ \A sid \in ShipmentIds :
           ~IsBlank(sid) => GetCheckpointCount(sid) = Len(GetShipmentHistory(sid))
    /\ \A p \in Procs :
           (Returned(p) /\ result[p].success)
               => /\ GetCheckpointCount(args[p].shipment_id) >= 1
                  /\ Len(GetShipmentHistory(args[p].shipment_id)) >= 1

----------------------------------------------------------------------------
(* Claim about the last processed block of the polling loop *)

\* C30: in the loop last_block never decreases; it changes only to the head
\* the turn observed, in the step in which the scan gave no event to deliver
\* or the callback returned; a raising callback leaves it unchanged; and the
\* scan after a raising callback starts at the same from_block and hands its
\* events to the callback again.
C30_LastBlockAdvancesAfterDelivery ==
    [][pl.pc \in LoopPcs =>
          /\ pl'.last_block >= pl.last_block
          /\ pl'.last_block # pl.last_block
                 => /\ pl'.last_block = pl.current_block
                    /\ pl.pc \in {"scan", "callback"}
                    /\ pl'.pc = "sleep"
          /\ (pl.pc = "callback" /\ pl'.pc = "except")
                 => pl'.last_block = pl.last_block
          /\ (pl.pc = "scan" /\ pl'.pc # "scan" /\ pl.retry_from # 0)
                 => /\ pl.retry_from = pl.last_block + 1
                    /\ pl'.pc = "callback"
      ]_vars

====
